---------------------------- MODULE Spec2Model ----------------------------
(***************************************************************************)
(* State-machine model of src/core/server.js: the POST /print route, the   *)
(* background print job (processPrintJob), the invoice renderer            *)
(* (printInvoice) and the logo download (downloadImage); then GET          *)
(* /api/printers with its probes (isPrinterOnline) and the authRequired    *)
(* middleware.                                                             *)
(*                                                                         *)
(* Specifications: Spec is POST /print with its jobs, LossySpec the same   *)
(* with logo transfers that may break off, ListSpec and ListFair are GET   *)
(* /api/printers, AuthSpec is POST /print behind authRequired, RenderSpec  *)
(* is one printInvoice call on a range of invoice payloads.                *)
(*                                                                         *)
(* JavaScript values are modelled as follows.  A string is a sequence of   *)
(* one-character strings, so that toLowerCase is computed character by     *)
(* character.  An optional property is a sequence of length 0 (absent,     *)
(* undefined) or 1 (present).  Synchronous JavaScript code runs to its     *)
(* next await without interleaving, so one action is one such run; every   *)
(* await whose result comes from the outside (liveness check, HTTP fetch,  *)
(* file system, execute) is the boundary between two actions.              *)
(***************************************************************************)
EXTENDS Integers, Sequences, FiniteSets, TLC

VARIABLES
    printerFile,  \* config/printer.json: the registry loadPrinters() returns
    nreq,         \* number of POST /print requests the route has handled
    req,          \* req[r]: the x-printer-id header of request r
    res,          \* res[r]: the HTTP response sent for request r, or NoRes
    hlog,         \* hlog[r]: the route handler's effects for request r, in order
    job,          \* job[r]: the processPrintJob invocation of request r, or NoJob
    logoFile,     \* content of the one file src/core/logo.png
    authOn,       \* ENABLE_AUTH: the value the process read at start-up
    cred,         \* cred[r]: the x-client-id and x-print-key headers of request r
    probe,        \* probe[i]: the isPrinterOnline call for the i-th registry entry
    list,         \* the GET /api/printers request: its position and its response
    rdata,        \* the invoice payload handed to printInvoice on its own
    rout          \* the job of that printInvoice call, or NoJob

printVars == <<nreq, req, res, hlog, job, logoFile>>
authVars == <<authOn, cred>>
listVars == <<probe, list>>
renderVars == <<rdata, rout>>
vars == <<printerFile, printVars, authVars, listVars, renderVars>>

(***************************************************************************)
(* Bounds.                                                                 *)
(***************************************************************************)
\* Number of POST /print requests in one behaviour.
MaxRequests == 2

Requests == 1 .. MaxRequests

(***************************************************************************)
(* JavaScript values.                                                      *)
(***************************************************************************)
Absent == <<>>

Some(v) == <<v>>

IsPresent(o) == Len(o) = 1

Val(o) == o[1]

\* String.prototype.toLowerCase on one character of the model's alphabet.
LowerChar(c) ==
    CASE c = "P" -> "p"
      [] c = "B" -> "b"
      [] c = "A" -> "a"
      [] c = "R" -> "r"
      [] OTHER -> c

toLowerCase(s) == [i \in 1 .. Len(s) |-> LowerChar(s[i])]

\* Truthiness of a string: only the empty string is falsy.
TruthyStr(o) == IsPresent(o) /\ Val(o) # <<>>

(***************************************************************************)
(* The printer registry (config/printer.json).                             *)
(***************************************************************************)
Conn1 == Some([ip |-> "10.0.0.5", port |-> 9100])

Conn2 == Some([ip |-> "10.0.0.6", port |-> 9100])

\* {id:"P1", enabled:true, connection:{...}}
EntryP1 == [id |-> Some(<<"P", "1">>), name |-> Absent, enabled |-> TRUE,
            connection |-> Conn1]

\* {id:"p2", name:"Bar", enabled:true, connection:{...}}
EntryBar == [id |-> Some(<<"p", "2">>), name |-> Some(<<"B", "a", "r">>),
             enabled |-> TRUE, connection |-> Conn2]

\* {id:"P1", name:"Bar", enabled:false, connection:{...}}: a disabled printer
EntryOff == [id |-> Some(<<"P", "1">>), name |-> Some(<<"B", "a", "r">>),
             enabled |-> FALSE, connection |-> Conn1]

\* {name:"Bar", enabled:true, connection:{...}}: an entry without an id
EntryNoId == [id |-> Absent, name |-> Some(<<"B", "a", "r">>), enabled |-> TRUE,
              connection |-> Conn2]

\* {id:"Z", enabled:true}: an entry without a connection
EntryNoConn == [id |-> Some(<<"Z">>), name |-> Absent, enabled |-> TRUE,
                connection |-> Absent]

\* The registries the configuration file may hold.
PrinterFiles ==
    { <<EntryOff, EntryNoConn, EntryBar>>,
      <<EntryNoId, EntryP1>> }

\* loadPrinters(): the registry is read from the file on every call.
loadPrinters == printerFile


(***************************************************************************)
(* Request inputs.                                                         *)
(***************************************************************************)
\* Values of the x-printer-id header: missing, "p1", "bAR", "z".
PrinterIds ==
    { Absent, Some(<<"p", "1">>), Some(<<"b", "A", "R">>), Some(<<"z">>) }

\* A numeric field of the payload, as JSON delivers it: missing, null, a
\* number (n, in hundredths), or a string ("" or a non-numeric word).
NumUndefined == [k |-> "undefined", n |-> 0]

NumNull == [k |-> "null", n |-> 0]

Num(n) == [k |-> "number", n |-> n]

NumEmptyStr == [k |-> "emptystr", n |-> 0]

NumWord == [k |-> "word", n |-> 0]

\* {} as company[0], master and a line item
EmptyComp == [Name |-> Absent, Place |-> Absent, Ph |-> Absent, gst |-> Absent]

EmptyMaster ==
    [BillNo |-> Absent, BillDate |-> Absent, BillTime |-> Absent,
     BillPartyName |-> Absent, Address1 |-> Absent, Ph |-> Absent,
     TinNo |-> Absent, BillTotalField |-> NumUndefined,
     BillDiscAmtField |-> NumUndefined, TItTaxAmt |-> NumUndefined,
     BillNetTotalField |-> NumUndefined]

EmptyItem ==
    [ItemNameTextField |-> Absent, qty |-> NumUndefined, Rate1 |-> NumUndefined,
     taxAmt |-> NumUndefined, total |-> NumUndefined]

\* The body {}: every property missing.  table is "undefined", "null" or
\* "array" (with its items).
EmptyBody ==
    [isInvoiceData |-> Absent, text |-> Absent, logo |-> Absent,
     company |-> <<>>, master |-> EmptyMaster,
     table |-> [k |-> "undefined", items |-> <<>>],
     typ |-> Absent, qrData |-> Absent]

Widget ==
    [ItemNameTextField |-> Some(<<"W", "i", "d", "g", "e", "t">>), qty |-> Num(200),
     Rate1 |-> NumWord, taxAmt |-> Num(100), total |-> Num(1000)]

Shop == [EmptyComp EXCEPT !.Name = Some(<<"Shop">>)]

Bill == [EmptyMaster EXCEPT !.BillNo = Some(<<"7">>),
                           !.BillPartyName = Some(<<"Cash">>),
                           !.BillNetTotalField = Num(1000)]

\* An invoice payload with one line item and no logo.
Invoice ==
    [EmptyBody EXCEPT !.isInvoiceData = Some([isInvoice |-> TRUE]),
                      !.company = <<Shop>>, !.master = Bill,
                      !.table = [k |-> "array", items |-> <<Widget>>]]

\* The request bodies of the model: neither kind (a false flag and an empty
\* text), a text, an invoice whose table is null, an invoice with a logo
\* that also carries a text, and an invoice with another logo.
Bodies ==
    { [EmptyBody EXCEPT !.isInvoiceData = Some([isInvoice |-> FALSE]),
                        !.text = Some(<<>>)],
      [EmptyBody EXCEPT !.text = Some(<<"H", "i">>)],
      [Invoice EXCEPT !.table = [k |-> "null", items |-> <<>>]],
      [Invoice EXCEPT !.logo = Some(<<"urlA">>), !.text = Some(<<"H", "i">>)],
      [Invoice EXCEPT !.logo = Some(<<"urlB">>)] }

(***************************************************************************)
(* POST /print (lines 214-254).                                            *)
(***************************************************************************)
NoRes == [status |-> 0, printer |-> Absent]

Response(status, printer) == [status |-> status, printer |-> printer]

\* The predicate without its p.enabled test.
MatchPrinterAnyState(p, printerId) ==
    IF ~IsPresent(p.id) THEN "throw"
    ELSE IF toLowerCase(Val(p.id)) = toLowerCase(printerId) THEN "true"
    ELSE IF IsPresent(p.name) /\ toLowerCase(Val(p.name)) = toLowerCase(printerId)
         THEN "true"
    ELSE "false"

\* The predicate handed to find() (lines 229-232): "true", "false", or
\* "throw" when p.id.toLowerCase() is called on an entry without an id.
MatchPrinter(p, printerId) ==
    IF ~p.enabled THEN "false"
    ELSE IF ~IsPresent(p.id) THEN "throw"
    ELSE IF toLowerCase(Val(p.id)) = toLowerCase(printerId) THEN "true"
    ELSE IF IsPresent(p.name) /\ toLowerCase(Val(p.name)) = toLowerCase(printerId)
         THEN "true"
    ELSE "false"

\* Array.prototype.find from index i on: the index of the first entry the
\* predicate accepts, 0 when there is none, -1 when the predicate throws.
RECURSIVE FindFrom(_, _, _)
FindFrom(printers, printerId, i) ==
    IF i > Len(printers) THEN 0
    ELSE LET m == MatchPrinter(printers[i], printerId)
         IN IF m = "throw" THEN -1
            ELSE IF m = "true" THEN i
            ELSE FindFrom(printers, printerId, i + 1)

FindPrinter(printers, printerId) == FindFrom(printers, printerId, 1)

\* An effect of the handler: a response sent, or processPrintJob called.
ResEffect(response) == [e |-> "res", response |-> response, cfg |-> Absent]

JobEffect(printerCfg) == [e |-> "job", response |-> NoRes, cfg |-> Some(printerCfg)]

\* The job started before the response is sent.
AcceptEffectsJobFirst(printerCfg) ==
    << JobEffect(printerCfg), ResEffect(Response(200, printerCfg.id)) >>

\* processPrintJob called a second time.
AcceptEffectsTwice(printerCfg) ==
    << ResEffect(Response(200, printerCfg.id)), JobEffect(printerCfg),
       JobEffect(printerCfg) >>

\* Lines 240-250: res.json({success, message, printer: printerCfg.id}), then
\* processPrintJob(printerCfg, req.body).
AcceptEffects(printerCfg) ==
    << ResEffect(Response(200, printerCfg.id)), JobEffect(printerCfg) >>

\* The handler's effects, in order, for a request with this header against
\* this registry.  The catch at line 251 only logs: no effect.
PrintRoute(printers, printerId) ==
    IF ~TruthyStr(printerId)
    THEN << ResEffect(Response(400, Absent)) >>
    ELSE LET i == FindPrinter(printers, Val(printerId))
         IN IF i = -1 THEN <<>>
            ELSE IF i = 0
            THEN << ResEffect(Response(404, Absent)) >>
            ELSE AcceptEffects(printers[i])

\* The entry the lookup of request inputs selects (0: none, -1: it threw).
Selected(printers, printerId) ==
    IF ~TruthyStr(printerId) THEN 0 ELSE FindPrinter(printers, Val(printerId))


(***************************************************************************)
(* The printer sink: the calls a job makes on its own ThermalPrinter, in   *)
(* order.  A call is its name and its arguments, each argument a string.   *)
(***************************************************************************)
Call(op, args) == [op |-> op, args |-> args]

Call0(op) == Call(op, <<>>)

\* String(x) of an optional string, as "+" concatenates it.
Str(o) == IF IsPresent(o) THEN Val(o) ELSE <<"undefined">>

\* x || "" and x ?? "" of an optional string.
OrEmpty(o) == IF IsPresent(o) THEN Val(o) ELSE <<>>

(***************************************************************************)
(* fmt (lines 361-364).                                                    *)
(***************************************************************************)
\* Number(val): [nan |-> TRUE] or the number, in hundredths.
Number(val) ==
    CASE val.k = "undefined" -> [nan |-> TRUE, n |-> 0]
      [] val.k = "null"      -> [nan |-> FALSE, n |-> 0]
      [] val.k = "emptystr"  -> [nan |-> FALSE, n |-> 0]
      [] val.k = "word"      -> [nan |-> TRUE, n |-> 0]
      [] OTHER               -> [nan |-> FALSE, n |-> val.n]

\* num.toFixed(2) of a non-negative number given in hundredths.
toFixed(n) ==
    << ToString(n \div 100), ".", ToString((n % 100) \div 10), ToString(n % 10) >>

fmt(val) ==
    LET num == Number(val)
    IN IF num.nan THEN toFixed(0) ELSE toFixed(num.n)

\* The text of a number that is printed as it is (not through fmt).
NumText(n) ==
    IF n % 100 = 0 THEN << ToString(n \div 100) >> ELSE toFixed(n)

\* it.qty ?? 0, as the table cell prints it (line 455).
QtyText(val) ==
    CASE val.k \in {"undefined", "null"} -> NumText(0)
      [] val.k = "emptystr"              -> <<>>
      [] val.k = "word"                  -> <<"word">>
      [] OTHER                           -> NumText(val.n)

(***************************************************************************)
(* printInvoice (lines 366-506), the synchronous parts.                    *)
(***************************************************************************)
\* Longest item name printed (line 446).
NameMax == 30

Min(a, b) == IF a < b THEN a ELSE b

\* s.substring(0, n)
Substring0(s, n) == SubSeq(s, 1, Min(Len(s), n))

\* Lines 380: before the logo.
InvoiceStart == << Call0("alignCenter") >>

\* Lines 388-389: the logo was read and printed.
LogoCalls(image) == << Call("printImage", <<image>>), Call0("newLine") >>

\* Lines 395-440: company header, bill metadata, column header.
InvoiceHeader(data) ==
    LET comp == IF data.company = <<>> THEN EmptyComp ELSE data.company[1]
        master == data.master
    IN << Call("bold", << <<"true">> >>),
          Call("println", << IF TruthyStr(comp.Name) THEN Val(comp.Name)
                                                      ELSE <<"COMPANY">> >>),
          Call("bold", << <<"false">> >>) >>
       \o (IF TruthyStr(comp.Place) THEN << Call("println", <<Val(comp.Place)>>) >>
                                    ELSE <<>>)
       \o (IF TruthyStr(comp.Ph)
           THEN << Call("println", << <<"Ph: ">> \o Val(comp.Ph) >>) >> ELSE <<>>)
       \o (IF TruthyStr(comp.gst)
           THEN << Call("println", << <<"GSTIN: ">> \o Val(comp.gst) >>) >> ELSE <<>>)
       \o << Call0("drawLine"),
             Call0("alignLeft"),
             Call("println", << <<"Bill No : ">> \o OrEmpty(master.BillNo) >>),
             Call("println", << <<"Date    : ">> \o OrEmpty(master.BillDate)
                                 \o <<" ">> \o OrEmpty(master.BillTime) >>) >>
       \o (IF TruthyStr(master.BillPartyName)
           THEN << Call("println", << <<"Party   : ">> \o Val(master.BillPartyName) >>) >>
           ELSE <<>>)
       \o (IF master.BillPartyName # Some(<<"Cash">>)
              \/ master.BillPartyName # Some(<<"3">>)
           THEN << Call("println", << <<"Add: ">> \o Str(master.Address1), <<>> >>),
                   Call("println", << <<"Contact: ">> \o Str(master.Ph), <<>> >>),
                   Call("println", << <<"Tax-No: ">> \o Str(master.TinNo), <<>> >>) >>
           ELSE <<>>)
       \o << Call0("drawLine"),
             Call("tableCustom", << <<"#">>, <<"Item Name">>, <<"Qty">>, <<"Rate">>,
                                    <<"Tax-Amt">>, <<"Net-Amt">> >>),
             Call0("drawLine") >>

\* The two rows of a line item in the other order.
ItemRowsSwapped(it, i) ==
    << Call("tableCustom", << <<>>, <<>>, QtyText(it.qty), fmt(it.Rate1),
                              fmt(it.taxAmt), fmt(it.total) >>),
       Call("tableCustom", << NumText(i * 100),
                              Substring0(OrEmpty(it.ItemNameTextField), NameMax) >>) >>

\* Lines 443-459: the two rows of line item i.
ItemRows(it, i) ==
    << Call("tableCustom", << NumText(i * 100),
                              Substring0(OrEmpty(it.ItemNameTextField), NameMax) >>),
       Call("tableCustom", << <<>>, <<>>, QtyText(it.qty), fmt(it.Rate1),
                              fmt(it.taxAmt), fmt(it.total) >>) >>

\* Lines 442-460: table.forEach, from item i on.
RECURSIVE TableRows(_, _)
TableRows(items, i) ==
    IF i > Len(items) THEN <<>>
    ELSE ItemRows(items[i], i) \o TableRows(items, i + 1)

\* Lines 462-503: totals, QR code, footer, cut, beeps.
InvoiceFooter(data) ==
    LET master == data.master
    IN << Call0("drawLine"),
          Call("leftRight", << <<"Sub Total">>, fmt(master.BillTotalField) >>),
          Call("leftRight", << <<"Discount">>, fmt(master.BillDiscAmtField) >>),
          Call("leftRight", << <<"Tax">>, fmt(master.TItTaxAmt) >>),
          Call("leftRight", << <<"Net Total">>, fmt(master.BillNetTotalField) >>),
          Call0("drawLine"),
          Call("bold", << <<"true">> >>),
          Call0("alignRight"),
          Call("println", << <<"NET TOTAL : ">> \o fmt(master.BillNetTotalField) >>),
          Call("bold", << <<"false">> >>),
          Call("drawLine", << <<"-">> >>) >>
       \o (IF data.typ = Some(<<"Direct Print 3Inch">>)
              /\ IsPresent(data.isInvoiceData) /\ Val(data.isInvoiceData).isInvoice
              /\ TruthyStr(data.qrData)
           THEN << Call0("alignCenter"), Call("printQR", <<Val(data.qrData)>>),
                   Call0("newLine") >>
           ELSE <<>>)
       \o << Call0("alignCenter"),
             Call("println", << <<"Thank you for shopping with us!">> >>),
             Call0("newLine"),
             Call0("cut"),
             Call0("beep"), Call0("beep"), Call0("beep") >>

\* printInvoice calling execute() whether or not the table could be walked.
InvoiceRestFlush(data) ==
    [calls |-> InvoiceHeader(data) \o << Call0("execute") >>, threw |-> data.table.k = "null"]

\* Lines 395-505, run without interruption after the logo step: the calls
\* made, and whether the run reached execute() (threw = FALSE) or threw at
\* table.forEach on a table that is null (threw = TRUE).
InvoiceRest(data) ==
    IF data.table.k = "null"
    THEN [calls |-> InvoiceHeader(data), threw |-> TRUE]
    ELSE [calls |-> InvoiceHeader(data) \o TableRows(data.table.items, 1)
                      \o InvoiceFooter(data) \o << Call0("execute") >>,
          threw |-> FALSE]


(***************************************************************************)
(* processPrintJob (lines 256-295).                                        *)
(***************************************************************************)
NoJob ==
    [pc |-> "none", cfg |-> Absent, body |-> EmptyBody, mode |-> "none",
     sink |-> <<>>, outcome |-> "none", promise |-> "none", runs |-> 0,
     probes |-> 0, fetches |-> 0, pos |-> 0,
     connected |-> "none", error |-> "none", logoFailed |-> FALSE]

\* The job returns normally: the async function's promise is fulfilled.
Finish(j, outcome) ==
    [j EXCEPT !.pc = "done", !.outcome = outcome, !.promise = "fulfilled"]

\* processPrintJob without its catch: the exception rejects the promise.
NoCatch(j) == [j EXCEPT !.pc = "done", !.promise = "rejected"]

\* Lines 290-294: the catch of processPrintJob logs PRINT FAILED and the
\* function returns normally.
Catch(j) == Finish(j, "TransmitFailed")

\* An exception is thrown inside the try of processPrintJob at the named
\* step; control passes to the catch.
Throw(j, step) == Catch([j EXCEPT !.error = step])

\* The branches tested in the other order: text first.
ModeTextFirst(body) ==
    IF TruthyStr(body.text) THEN "text"
    ELSE IF IsPresent(body.isInvoiceData) /\ Val(body.isInvoiceData).isInvoice
    THEN "invoice"
    ELSE "unsupported"

\* Lines 276-287: which branch the payload takes.
Mode(body) ==
    IF IsPresent(body.isInvoiceData) /\ Val(body.isInvoiceData).isInvoice
    THEN "invoice"
    ELSE IF TruthyStr(body.text) THEN "text"
    ELSE "unsupported"

\* Lines 395-505 of printInvoice on the job's printer, then await execute().
RenderRest(j) ==
    LET r == InvoiceRest(j.body)
    IN IF r.threw THEN Throw([j EXCEPT !.sink = @ \o r.calls], "render")
       ELSE [j EXCEPT !.sink = @ \o r.calls, !.pc = "execute"]

\* Lines 385-393, the catch: the logo failure is logged and printInvoice
\* goes on without the image.
LogoCatch(j) == RenderRest([j EXCEPT !.logoFailed = TRUE])

\* Lines 367-387: printInvoice up to its first await.
StartInvoice(j) ==
    LET k == [j EXCEPT !.mode = "invoice", !.sink = @ \o InvoiceStart]
    IN IF TruthyStr(k.body.logo)
       THEN [k EXCEPT !.pc = "axios", !.fetches = @ + 1]
       ELSE RenderRest(k)

\* The text branch without cut().
StartTextNoCut(j) ==
    [j EXCEPT !.mode = "text", !.pc = "execute",
              !.sink = @ \o << Call("println", <<Val(j.body.text)>>),
                               Call0("execute") >>]

\* Lines 279-283: the text branch up to await execute().
StartText(j) ==
    [j EXCEPT !.mode = "text", !.pc = "execute",
              !.sink = @ \o << Call("println", <<Val(j.body.text)>>),
                               Call0("cut"), Call0("execute") >>]

\* The else branch without its return: control reaches PRINT SUCCESS.
UnsupportedNoReturn(j) == Finish(j, "Printed")

\* Lines 284-287: neither payload kind.
Unsupported(j) == Finish(j, "UnsupportedPayload")

\* The offline test without its return: the job goes on to the branches.
OfflineNoReturn(j) ==
    IF Mode(j.body) = "invoice" THEN StartInvoice(j)
    ELSE IF Mode(j.body) = "text" THEN StartText(j)
    ELSE Unsupported(j)

\* Lines 269-272: the device is offline.
Offline(j) == Finish(j, "PrinterOffline")

\* Lines 256-266: processPrintJob up to await printer.isPrinterConnected();
\* building the interface string throws when the entry has no connection.
StartJob(printerCfg, body) ==
    LET j == [NoJob EXCEPT !.pc = "probe", !.cfg = Some(printerCfg),
                           !.body = body, !.promise = "pending", !.runs = 1]
    IN IF ~IsPresent(printerCfg.connection) THEN Throw(j, "descriptor")
       ELSE [j EXCEPT !.probes = @ + 1]

\* Lines 266-287: isPrinterConnected() settled with "true", "false" or
\* "throw".
AfterProbe(j, connected) ==
    LET k == [j EXCEPT !.connected = connected]
    IN IF connected = "throw" THEN Throw(k, "probe")
       ELSE IF connected = "false" THEN Offline(k)
       ELSE IF Mode(k.body) = "invoice" THEN StartInvoice(k)
       ELSE IF Mode(k.body) = "text" THEN StartText(k)
       ELSE Unsupported(k)

\* Lines 283, 505 and 289: execute() settled.
AfterExecute(j, ok) == IF ok THEN Finish(j, "Printed") ELSE Throw(j, "execute")

(***************************************************************************)
(* downloadImage (lines 508-525) and the logo file.                        *)
(***************************************************************************)
\* The bytes the server at a logo URL sends, in the chunks the stream
\* delivers them.
ImageOf(url) ==
    IF url = <<"urlA">> THEN <<"a1", "a2">> ELSE <<"b1", "b2">>

\* fs.createWriteStream(filePath) opens the file with flag "w": truncated.
Truncate(file) == <<>>

\* A write of one chunk at position i of the stream's own descriptor; a gap
\* left by another writer's truncation reads as zero bytes.
WriteAt(file, i, chunk) ==
    [k \in 1 .. (IF i > Len(file) THEN i ELSE Len(file)) |->
        IF k = i THEN chunk ELSE IF k <= Len(file) THEN file[k] ELSE "zero"]

\* Lines 387-389 after downloadImage resolved: printImage(logoPath) reads
\* the file as it is now; the image is printed (ok) or printImage throws.
AfterDownload(j, file, ok) ==
    IF ok THEN RenderRest([j EXCEPT !.sink = @ \o LogoCalls(file)])
    ELSE LogoCatch(j)


(***************************************************************************)
(* Initial values of the parts of the state a route does not use.          *)
(***************************************************************************)
\* The value of a variable in the runs of a route that does not use it.
NotUsed == <<>>

\* A request without the x-client-id and x-print-key headers.
NoCred == [id |-> Absent, key |-> Absent, gate |-> "none"]

\* No GET /api/printers request has arrived.
NoList == [pc |-> "idle", response |-> <<>>]

\* The registries GET /api/printers is checked on: those of the print route
\* and one of three printers with connections, one of them disabled.
ListFiles == PrinterFiles \cup { <<EntryOff, EntryBar, EntryP1>> }

ProbeIds == UNION { DOMAIN printers : printers \in ListFiles }

\* The call isPrinterOnline never made for an entry.
NoProbe == [sock |-> "none", result |-> "pending", events |-> <<>>]

(***************************************************************************)
(* The state machine.                                                      *)
(***************************************************************************)
NoReq == [printerId |-> Absent]

Init ==
    /\ printerFile \in PrinterFiles
    /\ nreq = 0
    /\ req = [r \in Requests |-> NoReq]
    /\ res = [r \in Requests |-> NoRes]
    /\ hlog = [r \in Requests |-> <<>>]
    /\ job = [r \in Requests |-> NoJob]
    /\ logoFile = <<>>
    /\ authOn = FALSE
    /\ cred = NotUsed
    /\ probe = NotUsed
    /\ list = NotUsed
    /\ rdata = NotUsed
    /\ rout = NotUsed

\* The effects of kind e among a handler's effects, in order.
EffectsOf(effects, e) == SelectSeq(effects, LAMBDA x : x.e = e)

\* POST /print: the route handler runs from its first line to its return,
\* processPrintJob included up to that function's first await.
HandlePrint(r, printerId, body) ==
    LET effects == PrintRoute(loadPrinters, printerId)
        sent == EffectsOf(effects, "res")
        calls == EffectsOf(effects, "job")
    IN /\ res' = [res EXCEPT ![r] = IF sent = <<>> THEN NoRes
                                    ELSE sent[1].response]
       /\ hlog' = [hlog EXCEPT ![r] = [i \in 1 .. Len(effects) |-> effects[i].e]]
       /\ job' = [job EXCEPT ![r] =
                    IF calls = <<>> THEN NoJob
                    ELSE [StartJob(Val(calls[1].cfg), body)
                            EXCEPT !.runs = Len(calls)]]

\* A POST /print request with ENABLE_AUTH off: authRequired calls next()
\* at its first line (line 96) and the handler runs.
PostPrint ==
    /\ nreq < MaxRequests
    /\ ~authOn
    /\ \E printerId \in PrinterIds, body \in Bodies :
          LET r == nreq + 1
          IN /\ nreq' = r
             /\ req' = [req EXCEPT ![r] = [printerId |-> printerId]]
             /\ HandlePrint(r, printerId, body)
    /\ UNCHANGED <<printerFile, logoFile, authVars, listVars, renderVars>>

\* await printer.isPrinterConnected() settles (line 266).
ProbeReturns(r) ==
    /\ job[r].pc = "probe"
    /\ \E connected \in {"true", "false", "throw"} :
          job' = [job EXCEPT ![r] = AfterProbe(job[r], connected)]
    /\ UNCHANGED <<printerFile, nreq, req, res, hlog, logoFile, authVars, listVars, renderVars>>

\* await axios(...) settles (lines 511-515): with a response stream, which
\* downloadImage pipes into a new write stream on logo.png, or with an error.
AxiosReturns(r) ==
    /\ job[r].pc = "axios"
    /\ \E ok \in BOOLEAN :
          job' = [job EXCEPT ![r] = IF ok THEN [job[r] EXCEPT !.pc = "open"]
                                    ELSE LogoCatch(job[r])]
    /\ UNCHANGED <<printerFile, nreq, req, res, hlog, logoFile, authVars, listVars, renderVars>>

\* The write stream opens logo.png (line 518), or emits "error" (line 521).
StreamOpen(r) ==
    /\ job[r].pc = "open"
    /\ \E ok \in BOOLEAN :
          IF ok
          THEN /\ logoFile' = Truncate(logoFile)
               /\ job' = [job EXCEPT ![r] = [job[r] EXCEPT !.pc = "write", !.pos = 0]]
          ELSE /\ logoFile' = logoFile
               /\ job' = [job EXCEPT ![r] = LogoCatch(job[r])]
    /\ UNCHANGED <<printerFile, nreq, req, res, hlog, authVars, listVars, renderVars>>

\* The write stream writes the next chunk piped to it (line 519).
StreamWrite(r) ==
    /\ job[r].pc = "write"
    /\ LET image == ImageOf(Val(job[r].body.logo))
           i == job[r].pos + 1
       IN /\ logoFile' = WriteAt(logoFile, i, image[i])
          /\ job' = [job EXCEPT ![r] =
                       [job[r] EXCEPT !.pos = i,
                                      !.pc = IF i = Len(image) THEN "finish"
                                             ELSE "write"]]
    /\ UNCHANGED <<printerFile, nreq, req, res, hlog, authVars, listVars, renderVars>>

\* The response stream fails while chunks are still to come: the connection
\* is reset, or the server stops sending.  pipe() does not end or destroy the
\* write stream when its source fails, and downloadImage listens to the write
\* stream only (lines 520-521): neither resolve nor reject is ever called.
SourceError(r) ==
    /\ job[r].pc = "write"
    /\ job' = [job EXCEPT ![r] = [job[r] EXCEPT !.pc = "hung", !.logoFailed = TRUE]]
    /\ UNCHANGED <<printerFile, nreq, req, res, hlog, logoFile, authVars, listVars, renderVars>>

\* The write stream emits "finish" (line 520): downloadImage returns the
\* path and printInvoice goes on to printImage and the rest of the invoice.
StreamFinish(r) ==
    /\ job[r].pc = "finish"
    /\ \E ok \in BOOLEAN :
          job' = [job EXCEPT ![r] = AfterDownload(job[r], logoFile, ok)]
    /\ UNCHANGED <<printerFile, nreq, req, res, hlog, logoFile, authVars, listVars, renderVars>>

\* await printer.execute() settles (lines 283 and 505).
ExecuteReturns(r) ==
    /\ job[r].pc = "execute"
    /\ \E ok \in BOOLEAN :
          job' = [job EXCEPT ![r] = AfterExecute(job[r], ok)]
    /\ UNCHANGED <<printerFile, nreq, req, res, hlog, logoFile, authVars, listVars, renderVars>>

JobStep(r) ==
    \/ ProbeReturns(r)
    \/ AxiosReturns(r)
    \/ StreamOpen(r)
    \/ StreamWrite(r)
    \/ StreamFinish(r)
    \/ ExecuteReturns(r)

Next ==
    \/ PostPrint
    \/ \E r \in Requests : JobStep(r)

\* The server with logo transfers that deliver every chunk once the write
\* stream is open.
Spec == Init /\ [][Next]_vars

\* A step of job r when a transfer may also break off.
LossyJobStep(r) == JobStep(r) \/ SourceError(r)

LossyNext ==
    \/ PostPrint
    \/ \E r \in Requests : JobStep(r)
    \/ \E r \in Requests : SourceError(r)

\* The server with logo transfers that may break off on the way.
LossySpec == Init /\ [][LossyNext]_vars


(***************************************************************************)
(* Properties.                                                             *)
(***************************************************************************)
Handled == 1 .. nreq

\* Two strings are equal ignoring case.
SameIgnoringCase(a, b) ==
    /\ Len(a) = Len(b)
    /\ \A i \in 1 .. Len(a) : LowerChar(a[i]) = LowerChar(b[i])

\* Registry entry p is enabled and its id or its alias name equals the
\* requested id ignoring case.
EnabledMatch(p, printerId) ==
    /\ p.enabled
    /\ \/ IsPresent(p.id) /\ SameIgnoringCase(Val(p.id), printerId)
       \/ IsPresent(p.name) /\ SameIgnoringCase(Val(p.name), printerId)

\* C1: for every request whose lookup resolves to an enabled printer, the
\* handler sends the 200 acknowledgement carrying that printer's id and only
\* then starts the job; the acknowledgement is there whatever the job later
\* finds (offline device, any payload kind).
C1_ResponseBeforeJob ==
    \A r \in Handled :
        /\ Selected(printerFile, req[r].printerId) > 0 =>
              /\ res[r] = Response(200,
                     printerFile[Selected(printerFile, req[r].printerId)].id)
              /\ hlog[r] = <<"res", "job">>
              /\ job[r].runs > 0
        /\ job[r].runs > 0 => res[r].status = 200 /\ hlog[r][1] = "res"

\* C1 witness: a request was acknowledged with 200 and its job then found
\* the device offline.
C1_Witness ==
    \E r \in Handled : res[r].status = 200 /\ job[r].outcome = "PrinterOffline"

\* C2: a request without x-printer-id gets 400 and a request whose id
\* matches no enabled printer gets 404, and neither starts a job.
C2_RejectedWithStatus ==
    \A r \in Handled :
        /\ ~TruthyStr(req[r].printerId) =>
              res[r].status = 400 /\ job[r] = NoJob
        /\ ( /\ TruthyStr(req[r].printerId)
             /\ \A i \in 1 .. Len(printerFile) :
                   ~EnabledMatch(printerFile[i], Val(req[r].printerId)) ) =>
              res[r].status = 404 /\ job[r] = NoJob

C4_OneJobPerAccept ==
    /\ Cardinality({ r \in Requests : res[r].status = 200 })
         = Cardinality({ r \in Requests : job[r].runs > 0 })
    /\ \A r \in Requests :
          /\ job[r].runs <= 1
          /\ job[r].probes <= 1
          /\ Len(SelectSeq(job[r].sink, LAMBDA c : c.op = "execute")) <= 1
          /\ job[r].pc # "none" <=> job[r].runs = 1

\* C4 witness: two requests were handled, one accepted and one rejected, and
\* the accepted one's job has ended in a transmit failure after execute().
C4_Witness ==
    /\ nreq = 2
    /\ Cardinality({ r \in Requests : res[r].status = 200 }) = 1
    /\ \E r \in Requests :
          job[r].outcome = "TransmitFailed" /\ job[r].error = "execute"

\* C5: every request the handler has processed has received a response.
C5_EveryRequestAnswered ==
    \A r \in Handled : res[r] # NoRes

\* C6: a job whose payload has both a true invoice flag and a non-empty text
\* takes the invoice path only and never issues println(text); a job acts on
\* one payload kind.
C6_InvoiceFirst ==
    \A r \in Requests :
        LET j == job[r]
            both == /\ IsPresent(j.body.isInvoiceData)
                    /\ Val(j.body.isInvoiceData).isInvoice
                    /\ TruthyStr(j.body.text)
        IN /\ (both /\ j.connected = "true") =>
                 /\ j.mode = "invoice"
                 /\ \A i \in 1 .. Len(j.sink) :
                       j.sink[i] # Call("println", <<Val(j.body.text)>>)
           /\ j.mode = "text" =>
                 j.sink = << Call("println", <<Val(j.body.text)>>),
                             Call0("cut"), Call0("execute") >>
           /\ j.mode = "invoice" => j.sink[1] = Call0("alignCenter")

\* C6 witness: such a job has printed its invoice.
C6_Witness ==
    \E r \in Requests :
        /\ IsPresent(job[r].body.isInvoiceData)
        /\ Val(job[r].body.isInvoiceData).isInvoice
        /\ TruthyStr(job[r].body.text)
        /\ job[r].outcome = "Printed"
        /\ job[r].mode = "invoice"

\* C7 as stated: a job whose payload has neither a truthy invoice flag nor
\* a non-empty text ends with UnsupportedPayload and makes no sink call.
C7_UnsupportedAlways ==
    \A r \in Requests :
        (job[r].pc = "done" /\ Mode(job[r].body) = "unsupported") =>
            job[r].outcome = "UnsupportedPayload" /\ job[r].sink = <<>>

\* C7 amended: a job whose payload has neither kind makes no sink call and
\* is never reported as printed; when its liveness check has reported the
\* device online it has ended with UnsupportedPayload.
C7_UnsupportedWhenOnline ==
    \A r \in Requests :
        (job[r].runs > 0 /\ ~(IsPresent(job[r].body.isInvoiceData)
                                /\ Val(job[r].body.isInvoiceData).isInvoice)
                         /\ ~TruthyStr(job[r].body.text)) =>
            /\ job[r].sink = <<>>
            /\ job[r].outcome # "Printed"
            /\ job[r].connected = "true" =>
                  job[r].pc = "done" /\ job[r].outcome = "UnsupportedPayload"

\* C7 witness: a job with neither kind, on an online printer, has ended.
C7_Witness ==
    \E r \in Requests :
        /\ Mode(job[r].body) = "unsupported"
        /\ job[r].connected = "true"
        /\ job[r].outcome = "UnsupportedPayload"

\* C8: a job whose liveness check reported the device offline has stopped
\* with PrinterOffline: no branch taken, no sink call, no logo fetch, one
\* liveness check, one run.
C8_OfflineStops ==
    \A r \in Requests :
        job[r].connected = "false" =>
            /\ job[r].pc = "done"
            /\ job[r].outcome = "PrinterOffline"
            /\ job[r].mode = "none"
            /\ job[r].sink = <<>>
            /\ job[r].fetches = 0
            /\ job[r].probes = 1
            /\ job[r].runs = 1

\* C8 witness: an invoice job with a logo found its printer offline.
C8_Witness ==
    \E r \in Requests :
        /\ job[r].connected = "false"
        /\ TruthyStr(job[r].body.logo)
        /\ Mode(job[r].body) = "invoice"

\* Some job has just caught an exception.
SomeJobThrew ==
    \E r \in Requests : job[r].error = "none" /\ job'[r].error # "none"

C10_OwnLogoPrinted ==
    \A r \in Requests :
        \A i \in 1 .. Len(job[r].sink) :
            job[r].sink[i].op = "printImage" =>
                job[r].sink[i].args = << ImageOf(Val(job[r].body.logo)) >>


(***************************************************************************)
(* isPrinterOnline (lines 122-134) and GET /api/printers (lines 140-151).  *)
(***************************************************************************)
\* resolve(v) of the promise isPrinterOnline returns, with the rule that
\* settles a promise once only.
ResolveKeepsLast(p, v) == [p EXCEPT !.result = v]

Resolve(p, v) == IF p.result = "pending" THEN [p EXCEPT !.result = v] ELSE p

\* The promise executor (lines 123-132): a new socket with its idle timer
\* set and the three handlers registered, on which connect() is called.
isPrinterOnline(conn) == [sock |-> "connecting", result |-> "pending", events |-> <<>>]

\* The "connect" handler (lines 127-130).
OnConnect(p) == Resolve([p EXCEPT !.sock = "destroyed"], "true")

\* The "error" handler (line 131).
OnError(p) == Resolve(p, "false")

\* The "timeout" handler (line 132).
OnTimeout(p) == Resolve(p, "false")

\* The callback of printers.map (lines 143-146) up to its await, for entry p:
\* reading p.connection.ip throws when the entry has no connection.
StartProbe(p) ==
    IF IsPresent(p.connection) THEN isPrinterOnline(Val(p.connection)) ELSE NoProbe

\* The array res.json sends (lines 143-148): each entry with its own result.
ListResult(printers, probes) ==
    [i \in DOMAIN printers |->
        [printer |-> printers[i], online |-> probes[i].result = "true"]]

ListInit ==
    /\ printerFile \in ListFiles
    /\ nreq = 0
    /\ req = NotUsed
    /\ res = NotUsed
    /\ hlog = NotUsed
    /\ job = NotUsed
    /\ logoFile = <<>>
    /\ authOn = FALSE
    /\ cred = NotUsed
    /\ probe = [i \in ProbeIds |-> NoProbe]
    /\ list = NoList
    /\ rdata = NotUsed
    /\ rout = NotUsed

\* GET /api/printers: the handler runs to its await (lines 141-147).  Every
\* callback of map has run to its own await by then; a callback that threw
\* rejects Promise.all, and the handler, which has no catch, with it.
GetPrinters ==
    /\ list.pc = "idle"
    /\ LET printers == loadPrinters
       IN /\ probe' = [i \in ProbeIds |->
                          IF i \in DOMAIN printers THEN StartProbe(printers[i])
                          ELSE NoProbe]
          /\ list' = [list EXCEPT !.pc =
                        IF \A i \in DOMAIN printers : IsPresent(printers[i].connection)
                        THEN "waiting" ELSE "rejected"]
    /\ UNCHANGED <<printerFile, printVars, authVars, renderVars>>

\* The socket of probe i connects.
SocketConnect(i) ==
    /\ probe[i].sock = "connecting"
    /\ probe' = [probe EXCEPT ![i] =
                   OnConnect([probe[i] EXCEPT !.events = Append(@, "connect")])]
    /\ UNCHANGED <<printerFile, list, printVars, authVars, renderVars>>

\* The connection attempt of probe i fails: the socket emits "error" and is
\* closed by the runtime.
SocketError(i) ==
    /\ probe[i].sock = "connecting"
    /\ probe' = [probe EXCEPT ![i] =
                   OnError([probe[i] EXCEPT !.events = Append(@, "error"),
                                            !.sock = "destroyed"])]
    /\ UNCHANGED <<printerFile, list, printVars, authVars, renderVars>>

\* The idle timer of probe i (line 125) expires while the socket is still
\* connecting; the socket stays as it is.
SocketTimeout(i) ==
    /\ probe[i].sock = "connecting"
    /\ \A k \in DOMAIN probe[i].events : probe[i].events[k] # "timeout"
    /\ probe' = [probe EXCEPT ![i] =
                   OnTimeout([probe[i] EXCEPT !.events = Append(@, "timeout")])]
    /\ UNCHANGED <<printerFile, list, printVars, authVars, renderVars>>

\* Promise.all resolves (line 142) and the handler sends the list (line 148).
ListRespond ==
    /\ list.pc = "waiting"
    /\ \A i \in DOMAIN loadPrinters : probe[i].result # "pending"
    /\ list' = [pc |-> "done", response |-> ListResult(loadPrinters, probe)]
    /\ UNCHANGED <<printerFile, probe, printVars, authVars, renderVars>>

ListNext ==
    \/ GetPrinters
    \/ \E i \in ProbeIds : SocketConnect(i)
    \/ \E i \in ProbeIds : SocketError(i)
    \/ \E i \in ProbeIds : SocketTimeout(i)
    \/ ListRespond

ListSpec == ListInit /\ [][ListNext]_vars

\* The idle timer of a socket that stays idle does expire.
ListFair == ListSpec /\ \A i \in ProbeIds : WF_vars(SocketTimeout(i))

Started(i) == probe[i].sock # "none"

\* C11: a probe always resolves and never rejects: its result is true when
\* the first event of its socket is connect and false when it is error or
\* timeout, a later event does not change a result once set, and every
\* probe that was started is resolved in the end.
C11_ProbeResolves ==
    /\ [](\A i \in ProbeIds : Started(i) =>
            /\ probe[i].result \in {"pending", "true", "false"}
            /\ (probe[i].events = <<>>) = (probe[i].result = "pending")
            /\ probe[i].events # <<>> =>
                  (probe[i].result = "true") = (probe[i].events[1] = "connect"))
    /\ [][\A i \in ProbeIds :
            Started(i) /\ probe[i].result # "pending"
               => probe'[i].result = probe[i].result]_vars
    /\ \A i \in ProbeIds : Started(i) ~> probe[i].result # "pending"

\* A probe whose socket connected after its timer had expired.
C11_Witness ==
    \E i \in ProbeIds :
        /\ Started(i)
        /\ probe[i].events = <<"timeout", "connect">>
        /\ probe[i].result = "false"

\* C12: once a probe has resolved, by connect, error or timeout, its socket
\* has been destroyed: no probe connection is open or pending.
C12_ResolvedProbeDestroyed ==
    \A i \in ProbeIds :
        Started(i) /\ probe[i].result # "pending" => probe[i].sock = "destroyed"

\* The positions of sink at which execute() is called.
ExecuteAt(sink) == { i \in DOMAIN sink : sink[i] = Call0("execute") }

\* C13: a job whose payload takes the text branch on a printer that answered
\* the liveness check has called exactly println(text), cut(), execute(),
\* each once and in this order, with the text as it was sent.
C13_TextSequence ==
    \A r \in Requests :
        (job[r].connected = "true" /\ Mode(job[r].body) = "text") =>
            /\ job[r].mode = "text"
            /\ job[r].sink = << [op |-> "println", args |-> <<Val(job[r].body.text)>>],
                                [op |-> "cut", args |-> <<>>],
                                [op |-> "execute", args |-> <<>>] >>

\* C13 witness: a text job that printed.
C13_Witness ==
    \E r \in Requests :
        /\ Mode(job[r].body) = "text"
        /\ job[r].connected = "true"
        /\ job[r].outcome = "Printed"

\* C14: execute() is called at most once in a job and is then the last sink
\* call, after cut and, for an invoice, the three beeps; a job that failed
\* before that point (descriptor, liveness check, rendering) never calls it.
C14_ExecuteLastOrNever ==
    \A r \in Requests :
        LET sink == job[r].sink
            n == Len(sink)
            called == n > 0 /\ sink[n].op = "execute"
        IN /\ \A i \in 1 .. n - 1 : sink[i].op # "execute"
           /\ (called /\ job[r].mode = "text") => sink[n - 1].op = "cut"
           /\ (called /\ job[r].mode = "invoice") =>
                 /\ n > 4
                 /\ sink[n - 4].op = "cut"
                 /\ \A i \in n - 3 .. n - 1 : sink[i].op = "beep"
           /\ job[r].error \in {"descriptor", "probe", "render"} => ~called

\* C14 witness: one job failed while rendering with calls already made, and
\* another printed its invoice.
C14_Witness ==
    \E r, q \in Requests :
        /\ job[r].error = "render"
        /\ Len(job[r].sink) > 1
        /\ job[q].mode = "invoice"
        /\ job[q].outcome = "Printed"

\* C15: once the logo step of an invoice job has failed, while the image was
\* fetched or printed, the job has gone on without the image: its sink holds
\* the header, the items, the totals, the footer, cut and execute() (or as
\* much of them as a table that cannot be walked allows) and no printImage,
\* and the logo failure is not the job's failure.
C15_LogoFailsSoft ==
    \A r \in Requests :
        job[r].logoFailed =>
            /\ job[r].pc \in {"execute", "done"}
            /\ job[r].sink = InvoiceStart \o InvoiceRest(job[r].body).calls
            /\ job[r].error \in {"none", "render", "execute"}
            /\ job[r].error = "render" => job[r].body.table.k = "null"

\* The terminal outcomes of a job.
Outcomes == {"Printed", "PrinterOffline", "UnsupportedPayload", "TransmitFailed"}

\* C20: every dispatched job ends in exactly one terminal outcome, an invoice
\* job whose logo transfer fails on the way included: a job that has not
\* ended has a step to take, a job that has ended has one of the four
\* outcomes, and Printed is reported only when execute() returned without
\* an error.
C20_EveryJobEnds ==
    \A r \in Requests :
        /\ job[r].pc \notin {"none", "done"} => ENABLED LossyJobStep(r)
        /\ job[r].pc = "done" => job[r].outcome \in Outcomes
        /\ job[r].pc # "done" => job[r].outcome = "none"
        /\ job[r].outcome = "Printed" =>
              /\ job[r].error = "none"
              /\ ExecuteAt(job[r].sink) = {Len(job[r].sink)}

(***************************************************************************)
(* printInvoice on its own: one call on an invoice payload without a logo. *)
(***************************************************************************)
\* Longest table of the payloads rendered.
MaxItems == 2

\* An item name of NameMax characters, and one that is longer.
FullName == [i \in 1 .. NameMax |-> ToString(i % 10)]

LongName == FullName \o <<"x", "y">>

\* Line items: well-formed but for its rate, empty, and three with missing,
\* null, empty and non-numeric fields.
RenderItems ==
    { Widget,
      EmptyItem,
      [ItemNameTextField |-> Some(LongName), qty |-> NumNull, Rate1 |-> NumNull,
       taxAmt |-> NumEmptyStr, total |-> Num(1234)],
      [ItemNameTextField |-> Some(FullName), qty |-> NumWord, Rate1 |-> Num(5),
       taxAmt |-> Num(99), total |-> NumWord],
      [ItemNameTextField |-> Some(<<>>), qty |-> NumEmptyStr, Rate1 |-> NumUndefined,
       taxAmt |-> NumWord, total |-> NumNull] }

RenderMasters ==
    { Bill,
      EmptyMaster,
      [Bill EXCEPT !.BillTotalField = NumWord, !.BillDiscAmtField = NumNull,
                   !.TItTaxAmt = NumEmptyStr, !.BillNetTotalField = Num(2050)] }

RenderTables ==
    { [k |-> "array", items |-> items] :
         items \in UNION { [1 .. n -> RenderItems] : n \in 0 .. MaxItems } }
    \cup { [k |-> "null", items |-> <<>>] }

RenderInit ==
    /\ printerFile \in PrinterFiles
    /\ nreq = 0
    /\ req = NotUsed
    /\ res = NotUsed
    /\ hlog = NotUsed
    /\ job = NotUsed
    /\ logoFile = <<>>
    /\ authOn = FALSE
    /\ cred = NotUsed
    /\ probe = NotUsed
    /\ list = NotUsed
    /\ \E master \in RenderMasters, table \in RenderTables :
          rdata = [Invoice EXCEPT !.master = master, !.table = table]
    /\ rout = NoJob

\* await printInvoice(printer, body) (line 278) up to await execute().
RenderInvoice ==
    /\ rout.pc = "none"
    /\ rout' = StartInvoice([NoJob EXCEPT !.body = rdata, !.promise = "pending",
                                          !.connected = "true"])
    /\ UNCHANGED <<printerFile, printVars, authVars, listVars, rdata>>

RenderNext == RenderInvoice

RenderSpec == RenderInit /\ [][RenderNext]_vars

\* The position of the column header row in a sink.
HeaderAt(sink) ==
    CHOOSE h \in DOMAIN sink :
        /\ sink[h].op = "tableCustom"
        /\ sink[h].args[1] = <<"#">>

\* s is what is left of name after the characters beyond the first NameMax
\* are cut off.
Truncated(s, name) ==
    /\ Len(s) <= NameMax
    /\ Len(s) = Len(name) \/ Len(s) = NameMax
    /\ \A k \in DOMAIN s : s[k] = name[k]

\* C16: an invoice with n line items has exactly 2n table rows between the
\* divider under the column header and the divider above the totals: for
\* item i row A with the index i and the name cut to at most 30 characters,
\* then at once row B with the item's quantity, rate, tax amount and total,
\* the items in table order.
C16_TwoRowsPerItem ==
    (rout.pc # "none" /\ rdata.table.k = "array") =>
        LET sink == rout.sink
            items == rdata.table.items
            n == Len(items)
            h == HeaderAt(sink)
        IN /\ sink[h + 1] = Call0("drawLine")
           /\ sink[h + 2 * n + 2] = Call0("drawLine")
           /\ sink[h + 2 * n + 3].op = "leftRight"
           /\ \A i \in 1 .. n :
                 LET a == sink[h + 2 * i]
                     b == sink[h + 2 * i + 1]
                     name == IF IsPresent(items[i].ItemNameTextField)
                             THEN Val(items[i].ItemNameTextField) ELSE <<>>
                 IN /\ a.op = "tableCustom"
                    /\ Len(a.args) = 2
                    /\ a.args[1] = <<ToString(i)>>
                    /\ Truncated(a.args[2], name)
                    /\ b.op = "tableCustom"
                    /\ Len(b.args) = 6
                    /\ b.args[1] = <<>> /\ b.args[2] = <<>>
                    /\ b.args[3] = QtyText(items[i].qty)
                    /\ b.args[4] = fmt(items[i].Rate1)
                    /\ b.args[5] = fmt(items[i].taxAmt)
                    /\ b.args[6] = fmt(items[i].total)

\* C16 witness: a rendered invoice of two items, the second with a name that
\* is longer than 30 characters.
C16_Witness ==
    /\ rout.pc = "execute"
    /\ Len(rdata.table.items) = 2
    /\ rdata.table.items[1] = Widget
    /\ rdata.table.items[2].ItemNameTextField = Some(LongName)

\* A field that is missing (undefined, null, "") or not numeric.
NoNumber(val) == val.k \in {"undefined", "null", "emptystr", "word"}

Zero00 == <<"0", ".", "0", "0">>

\* C17: every quantity and currency field of a rendered invoice, the four of
\* each line item and the master totals, is printed as "0.00" when its input
\* is missing or not numeric, and rendering does not fail on such input.
C17_UniformZero ==
    (rout.pc # "none" /\ rdata.table.k = "array") =>
        LET sink == rout.sink
            items == rdata.table.items
            n == Len(items)
            h == HeaderAt(sink)
            t == h + 2 * n + 2
            master == rdata.master
        IN /\ rout.error = "none"
           /\ \A i \in 1 .. n :
                 LET b == sink[h + 2 * i + 1]
                 IN /\ NoNumber(items[i].qty) => b.args[3] = Zero00
                    /\ NoNumber(items[i].Rate1) => b.args[4] = Zero00
                    /\ NoNumber(items[i].taxAmt) => b.args[5] = Zero00
                    /\ NoNumber(items[i].total) => b.args[6] = Zero00
           /\ NoNumber(master.BillTotalField) => sink[t + 1].args[2] = Zero00
           /\ NoNumber(master.BillDiscAmtField) => sink[t + 2].args[2] = Zero00
           /\ NoNumber(master.TItTaxAmt) => sink[t + 3].args[2] = Zero00
           /\ NoNumber(master.BillNetTotalField) => sink[t + 4].args[2] = Zero00

(***************************************************************************)
(* authRequired (lines 95-116) in front of POST /print (line 214).         *)
(***************************************************************************)
\* loadClients(): the entries of config/clients.json.  An enabled client, a
\* disabled one, and an entry without the enabled property.
loadClients ==
    << [id |-> Some("c1"), pin |-> Some("k1"), enabled |-> Some(TRUE)],
       [id |-> Some("c2"), pin |-> Some("k2"), enabled |-> Some(FALSE)],
       [id |-> Some("c3"), pin |-> Some("k3"), enabled |-> Absent] >>

\* The x-client-id and x-print-key headers of a request: both missing, one
\* missing, an empty key, the enabled client, its id with another client's
\* key, the disabled client, the client without enabled, an unknown id.
Creds ==
    { [id |-> Absent, key |-> Absent],
      [id |-> Some("c1"), key |-> Absent],
      [id |-> Absent, key |-> Some("k1")],
      [id |-> Some("c1"), key |-> Some("")],
      [id |-> Some("c1"), key |-> Some("k1")],
      [id |-> Some("c1"), key |-> Some("k2")],
      [id |-> Some("c2"), key |-> Some("k2")],
      [id |-> Some("c3"), key |-> Some("k3")],
      [id |-> Some("c9"), key |-> Some("k1")] }

\* The payloads sent in the runs that exercise the gate.
AuthBodies == { [EmptyBody EXCEPT !.text = Some(<<"H", "i">>)] }

\* !x of a header value: missing or the empty string.
Falsy(o) == ~IsPresent(o) \/ Val(o) = ""

\* The find predicate without the test of enabled.
ClientOkAnyState(c, id, key) == c.id = id /\ c.pin = key

\* Lines 107-109: the predicate of clients.find.
ClientOk(c, id, key) == c.id = id /\ c.pin = key /\ c.enabled = Some(TRUE)

\* Lines 95-116: "next" when next() is called, else the status sent.
authRequired(on, id, key) ==
    IF ~on THEN "next"
    ELSE IF Falsy(id) \/ Falsy(key) THEN "401"
    ELSE IF \E i \in DOMAIN loadClients : ClientOk(loadClients[i], id, key)
    THEN "next"
    ELSE "403"

AuthInit ==
    /\ printerFile \in PrinterFiles
    /\ nreq = 0
    /\ req = [r \in Requests |-> NoReq]
    /\ res = [r \in Requests |-> NoRes]
    /\ hlog = [r \in Requests |-> <<>>]
    /\ job = [r \in Requests |-> NoJob]
    /\ logoFile = <<>>
    /\ authOn \in BOOLEAN
    /\ cred = [r \in Requests |-> NoCred]
    /\ probe = NotUsed
    /\ list = NotUsed
    /\ rdata = NotUsed
    /\ rout = NotUsed

\* A POST /print request through authRequired: the handler runs when the
\* middleware calls next(), else the middleware has sent 401 or 403.
AuthPostPrint ==
    /\ nreq < MaxRequests
    /\ \E c \in Creds, printerId \in PrinterIds, body \in AuthBodies :
          LET r == nreq + 1
              gate == authRequired(authOn, c.id, c.key)
          IN /\ nreq' = r
             /\ req' = [req EXCEPT ![r] = [printerId |-> printerId]]
             /\ cred' = [cred EXCEPT ![r] = [id |-> c.id, key |-> c.key, gate |-> gate]]
             /\ IF gate = "next"
                THEN HandlePrint(r, printerId, body)
                ELSE /\ res' = [res EXCEPT ![r] =
                                  Response(IF gate = "401" THEN 401 ELSE 403, Absent)]
                     /\ hlog' = [hlog EXCEPT ![r] = <<"res">>]
                     /\ job' = job
    /\ UNCHANGED <<printerFile, logoFile, authOn, listVars, renderVars>>

AuthNext == AuthPostPrint

AuthSpec == AuthInit /\ [][AuthNext]_vars

\* The headers name a client of the registry that is enabled.
ValidClient(c) ==
    /\ IsPresent(c.id) /\ IsPresent(c.key)
    /\ \E i \in DOMAIN loadClients :
          /\ loadClients[i].id = c.id
          /\ loadClients[i].pin = c.key
          /\ loadClients[i].enabled = Some(TRUE)

\* C18: with the flag on, the handler of POST /print runs, and a job can
\* start, only for a request whose client id and key are those of an enabled
\* registry entry; a request that lacks one of the two gets 401, one with an
\* unknown id, another key or a client that is not enabled gets 403, and
\* neither starts a job.  With the flag off every request reaches the
\* handler.
C18_AuthGate ==
    \A r \in Requests :
        r <= nreq =>
            LET c == cred[r]
            IN /\ authOn => ((c.gate = "next") = ValidClient(c))
               /\ (authOn /\ (Falsy(c.id) \/ Falsy(c.key))) =>
                     (c.gate = "401" /\ res[r].status = 401)
               /\ (authOn /\ ~Falsy(c.id) /\ ~Falsy(c.key) /\ ~ValidClient(c)) =>
                     (c.gate = "403" /\ res[r].status = 403)
               /\ c.gate # "next" => (job[r] = NoJob /\ hlog[r] = <<"res">>)
               /\ ~authOn => c.gate = "next"

\* C18 witness: with the flag on, the disabled client was refused with 403
\* and the enabled client's request started a job.
C18_Witness ==
    /\ authOn
    /\ \E r, q \in Requests :
          /\ cred[r].id = Some("c2") /\ cred[r].key = Some("k2")
          /\ res[r].status = 403
          /\ cred[q].gate = "next"
          /\ job[q].pc = "probe"

\* C19: GET /api/printers starts a probe for every configured printer,
\* enabled or not, before any of them has finished, and responds only after
\* all of them have resolved, with one entry per configured printer in
\* registry order, each with the result of that printer's own probe, in
\* whatever order the probes completed.
C19_ProbesAllRespondsInOrder ==
    /\ list.pc # "idle" => \A i \in DOMAIN printerFile : Started(i)
    /\ list.pc = "done" =>
          /\ DOMAIN list.response = DOMAIN printerFile
          /\ \A i \in DOMAIN printerFile :
                /\ probe[i].result # "pending"
                /\ list.response[i].printer = printerFile[i]
                /\ list.response[i].online = (probe[i].events[1] = "connect")

====
